---- MODULE Spec2Model ----
(***************************************************************************)
(* State-machine model of todo-tui (src/src/main.rs): the terminal session *)
(* set up and torn down by main, and the event loop run_app with its key   *)
(* handlers and the redraw that ends every iteration.                      *)
(*                                                                         *)
(* Indices are 0-based as in the source; a Vec is a sequence, so element i *)
(* of the source is element i + 1 of the sequence.  An Option is a         *)
(* sequence of length at most one.  A String is a sequence of one-letter   *)
(* strings.                                                                *)
(*                                                                         *)
(* ListState and List (ratatui) and Input (tui_input) are library types;   *)
(* they are modelled at the places main.rs calls them.  The frame is taken *)
(* to be large enough for the bordered list to have a non-empty inner      *)
(* area, which is when List's render normalises the selection.             *)
(***************************************************************************)
EXTENDS Integers, Sequences, FiniteSets, TLC

VARIABLES
    pc,                 \* position of the process in main / run_app
    raw_mode,           \* terminal: raw mode enabled
    alternate_screen,   \* terminal: alternate screen entered
    mouse_capture,      \* terminal: mouse capture enabled
    current_screen,     \* AppState.current_screen
    input,              \* AppState.input: [value, cursor]
    currently_editing,  \* AppState.currently_editing: Option<TodoItem>
    edit_index,         \* AppState.edit_index
    todo_list_state,    \* AppState.todo_list_state: the selected index, Option<usize>
    items,              \* AppState.items
    add_commits,        \* history: the number of commits made on the Add screen
    entry_items         \* history: the list as it was when the Add or Edit screen was
                        \* entered (Some), None on the other screens

term == <<raw_mode, alternate_screen, mouse_capture>>
app == <<current_screen, input, currently_editing, edit_index, todo_list_state, items>>
vars == <<pc, raw_mode, alternate_screen, mouse_capture, current_screen, input,
          currently_editing, edit_index, todo_list_state, items, add_commits,
          entry_items>>
hist == <<add_commits, entry_items>>

(***************************************************************************)
(* Bounds of the model.                                                    *)
(***************************************************************************)
MaxItems == 2
MaxLen == 1
UsizeMax == 255

(***************************************************************************)
(* Option, usize arithmetic, key events.                                   *)
(***************************************************************************)
None == <<>>
Some(x) == <<x>>

saturating_sub(i, n) == IF i < n THEN 0 ELSE i - n
saturating_add(i, n) == IF i + n > UsizeMax THEN UsizeMax ELSE i + n

KeyEventKinds == {"Press", "Repeat", "Release"}

Char(c) == <<"Char", c>>
Enter == <<"Enter">>
Esc == <<"Esc">>
Up == <<"Up">>
Down == <<"Down">>
Backspace == <<"Backspace">>
Left == <<"Left">>
Tab == <<"Tab">>
Chars == {"a", "q", " "}
TypedChars == {"q"}
KeyCodes == {Char(c) : c \in Chars} \cup {Enter, Esc, Up, Down, Backspace, Left, Tab}

(***************************************************************************)
(* TodoItem and the Vec operations of AppState.                            *)
(***************************************************************************)
Indices(v) == 1 .. Len(v)

TodoItem(done, description) == [done |-> done, description |-> description]

VecRemove(v, index) == SubSeq(v, 1, index) \o SubSeq(v, index + 2, Len(v))
VecInsert(v, index, x) == SubSeq(v, 1, index) \o <<x>> \o SubSeq(v, index + 1, Len(v))

add_item(v, todo_item) == Append(v, todo_item)
remove_at(v, index) == VecRemove(v, index)
\* Mutant of replace: the old item is not removed.
replace_keeps_old(v, todo_item, index) == VecInsert(v, index, todo_item)

replace(v, todo_item, index) == VecInsert(VecRemove(v, index), index, todo_item)

(***************************************************************************)
(* tui_input::Input: a value and a cursor.                                 *)
(***************************************************************************)
InputDefault == [value |-> <<>>, cursor |-> 0]
InputFrom(s) == [value |-> s, cursor |-> Len(s)]

InsertChar(inp, c) ==
    [value |-> VecInsert(inp.value, inp.cursor, c), cursor |-> inp.cursor + 1]
DeletePrevChar(inp) ==
    IF inp.cursor = 0 THEN inp
    ELSE [value |-> VecRemove(inp.value, inp.cursor - 1), cursor |-> inp.cursor - 1]
GoToPrevChar(inp) ==
    IF inp.cursor = 0 THEN inp ELSE [inp EXCEPT !.cursor = inp.cursor - 1]

handle_event(inp, code) ==
    IF code[1] = "Char" THEN InsertChar(inp, code[2])
    ELSE IF code = Backspace THEN DeletePrevChar(inp)
    ELSE IF code = Left THEN GoToPrevChar(inp)
    ELSE inp

(***************************************************************************)
(* ratatui::widgets::ListState and the List widget's render.               *)
(***************************************************************************)
\* Mutant of select_previous: the index wraps below 0.
select_previous_wraps(sel) ==
    IF sel = None \/ sel[1] = 0 THEN Some(UsizeMax) ELSE Some(sel[1] - 1)

select_previous(sel) ==
    IF sel = None THEN Some(UsizeMax) ELSE Some(saturating_sub(sel[1], 1))
select_next(sel) ==
    IF sel = None THEN Some(0) ELSE Some(saturating_add(sel[1], 1))

\* Mutant of main_ui: an index past the end is left as it is.
main_ui_unclamped(sel, v) ==
    IF Len(v) = 0 THEN None ELSE sel

\* Mutant of main_ui: an empty list does not clear the selection.
main_ui_keeps_selection(sel, v) ==
    IF sel # None /\ sel[1] >= Len(v) THEN Some(saturating_sub(Len(v), 1)) ELSE sel

main_ui(sel, v) ==
    IF Len(v) = 0 THEN None
    ELSE IF sel # None /\ sel[1] >= Len(v) THEN Some(Len(v) - 1)
    ELSE sel

(***************************************************************************)
(* AppState::new, and the state main starts in.                            *)
(***************************************************************************)
Init ==
    /\ pc = "enable_raw_mode"
    /\ raw_mode = FALSE
    /\ alternate_screen = FALSE
    /\ mouse_capture = FALSE
    /\ current_screen = "Main"
    /\ input = InputDefault
    /\ currently_editing = None
    /\ edit_index = 0
    /\ todo_list_state = None
    /\ items = <<>>
    /\ add_commits = 0
    /\ entry_items = None

(***************************************************************************)
(* main: terminal setup.  Each `?` returns the error at once; execute!     *)
(* writes its commands in order, so a failure leaves a prefix of them done.*)
(***************************************************************************)
EnableRawMode ==
    /\ pc = "enable_raw_mode"
    /\ \/ /\ raw_mode' = TRUE
          /\ pc' = "enter_screen"
       \/ /\ raw_mode' = raw_mode
          /\ pc' = "exit_err"
    /\ UNCHANGED <<alternate_screen, mouse_capture, app, hist>>

EnterScreen ==
    /\ pc = "enter_screen"
    /\ \/ /\ alternate_screen' = TRUE
          /\ mouse_capture' = TRUE
          /\ pc' = "terminal_new"
       \/ /\ alternate_screen' \in BOOLEAN
          /\ mouse_capture' \in BOOLEAN
          /\ mouse_capture' => alternate_screen'
          /\ pc' = "exit_err"
    /\ UNCHANGED <<raw_mode, app, hist>>

TerminalNew ==
    /\ pc = "terminal_new"
    /\ pc' \in {"read", "exit_err"}
    /\ UNCHANGED <<term, app, hist>>

(***************************************************************************)
(* run_app: one event is read and dispatched on (screen, key).             *)
(***************************************************************************)
\* Mutant of Acted: no kind of key event is skipped.
ActedAlways(kind) == TRUE

Acted(kind) == kind # "Release"

ReadFail ==
    /\ pc = "read"
    /\ pc' = "exit_err"
    /\ UNCHANGED <<term, app, hist>>

KeyRelease(kind, code) ==
    /\ pc = "read"
    /\ ~Acted(kind)
    /\ pc' = "read"
    /\ UNCHANGED <<term, app, hist>>

OtherEvent ==
    /\ pc = "read"
    /\ pc' = "draw"
    /\ UNCHANGED <<term, app, hist>>

MainA(kind, code) ==
    /\ pc = "read" /\ Acted(kind) /\ current_screen = "Main"
    /\ code = Char("a")
    /\ current_screen' = "Add"
    /\ pc' = "draw"
    /\ entry_items' = Some(items)
    /\ UNCHANGED <<term, input, currently_editing, edit_index, todo_list_state, items,
                   add_commits>>

\* Mutant of MainEnter: the Edit screen opens also when nothing is selected.
MainEnterUnguarded(kind, code) ==
    /\ pc = "read" /\ Acted(kind) /\ current_screen = "Main"
    /\ code = Enter
    /\ IF Len(items) > 0 /\ todo_list_state # None
       THEN LET e == items[todo_list_state[1] + 1] IN
            /\ input' = InputFrom(e.description)
            /\ currently_editing' = Some(e)
       ELSE UNCHANGED <<input, currently_editing>>
    /\ current_screen' = "Edit"
    /\ entry_items' = Some(items)
    /\ pc' = "draw"
    /\ UNCHANGED <<term, edit_index, todo_list_state, items, add_commits>>

\* Mutant of MainEnter: the selected item is not copied into currently_editing.
MainEnterNoCopy(kind, code) ==
    /\ pc = "read" /\ Acted(kind) /\ current_screen = "Main"
    /\ code = Enter
    /\ IF Len(items) > 0 /\ todo_list_state # None
       THEN LET e == items[todo_list_state[1] + 1] IN
            /\ input' = InputFrom(e.description)
            /\ currently_editing' = currently_editing
            /\ current_screen' = "Edit"
            /\ entry_items' = Some(items)
       ELSE UNCHANGED <<input, currently_editing, current_screen, entry_items>>
    /\ pc' = "draw"
    /\ UNCHANGED <<term, edit_index, todo_list_state, items, add_commits>>

MainEnter(kind, code) ==
    /\ pc = "read" /\ Acted(kind) /\ current_screen = "Main"
    /\ code = Enter
    /\ IF Len(items) > 0 /\ todo_list_state # None
       THEN LET e == items[todo_list_state[1] + 1] IN
            /\ input' = InputFrom(e.description)
            /\ currently_editing' = Some(e)
            /\ current_screen' = "Edit"
            /\ entry_items' = Some(items)
       ELSE UNCHANGED <<input, currently_editing, current_screen, entry_items>>
    /\ pc' = "draw"
    /\ UNCHANGED <<term, edit_index, todo_list_state, items, add_commits>>

MainQ(kind, code) ==
    /\ pc = "read" /\ Acted(kind) /\ current_screen = "Main"
    /\ code = Char("q")
    /\ current_screen' = "Exit"
    /\ pc' = "draw"
    /\ UNCHANGED <<term, input, currently_editing, edit_index, todo_list_state, items,
                   hist>>

\* Mutant of MainSpace: every item is toggled.
MainSpaceTogglesAll(kind, code) ==
    /\ pc = "read" /\ Acted(kind) /\ current_screen = "Main"
    /\ code = Char(" ")
    /\ IF Len(items) > 0 /\ todo_list_state # None
       THEN items' = [k \in Indices(items) |-> [items[k] EXCEPT !.done = ~items[k].done]]
       ELSE items' = items
    /\ pc' = "draw"
    /\ UNCHANGED <<term, current_screen, input, currently_editing, edit_index,
                   todo_list_state, hist>>

MainSpace(kind, code) ==
    /\ pc = "read" /\ Acted(kind) /\ current_screen = "Main"
    /\ code = Char(" ")
    /\ IF Len(items) > 0 /\ todo_list_state # None
       THEN LET i == todo_list_state[1] + 1 IN
            items' = [items EXCEPT ![i].done = ~items[i].done]
       ELSE items' = items
    /\ pc' = "draw"
    /\ UNCHANGED <<term, current_screen, input, currently_editing, edit_index,
                   todo_list_state, hist>>

MainUp(kind, code) ==
    /\ pc = "read" /\ Acted(kind) /\ current_screen = "Main"
    /\ code = Up
    /\ todo_list_state' = select_previous(todo_list_state)
    /\ pc' = "draw"
    /\ UNCHANGED <<term, current_screen, input, currently_editing, edit_index, items,
                   hist>>

MainDown(kind, code) ==
    /\ pc = "read" /\ Acted(kind) /\ current_screen = "Main"
    /\ code = Down
    /\ todo_list_state' = select_next(todo_list_state)
    /\ pc' = "draw"
    /\ UNCHANGED <<term, current_screen, input, currently_editing, edit_index, items,
                   hist>>

MainOther(kind, code) ==
    /\ pc = "read" /\ Acted(kind) /\ current_screen = "Main"
    /\ code \notin {Char("a"), Enter, Char("q"), Char(" "), Up, Down}
    /\ pc' = "draw"
    /\ UNCHANGED <<term, app, hist>>

\* The keys the model presses on the Add and Edit screens: the buffer is kept
\* within MaxLen characters, and the characters typed are those of TypedChars.
Typable(code) ==
    code[1] = "Char" => (Len(input.value) < MaxLen /\ code[2] \in TypedChars)

\* Mutant of EditEsc: leaving with Esc stores the buffer in the selected item.
EditEscSaves(kind, code) ==
    /\ pc = "read" /\ Acted(kind) /\ current_screen = "Edit"
    /\ code = Esc
    /\ items' = IF todo_list_state # None /\ currently_editing # None
                THEN replace(items, TodoItem(currently_editing[1].done, input.value),
                             todo_list_state[1])
                ELSE items
    /\ current_screen' = "Main"
    /\ pc' = "draw"
    /\ entry_items' = None
    /\ UNCHANGED <<term, input, currently_editing, edit_index, todo_list_state,
                   add_commits>>

EditEsc(kind, code) ==
    /\ pc = "read" /\ Acted(kind) /\ current_screen = "Edit"
    /\ code = Esc
    /\ current_screen' = "Main"
    /\ pc' = "draw"
    /\ entry_items' = None
    /\ UNCHANGED <<term, input, currently_editing, edit_index, todo_list_state, items,
                   add_commits>>

\* Mutant of EditEnter: the edited item is added at the end instead of replacing.
EditEnterAddsItem(kind, code) ==
    /\ pc = "read" /\ Acted(kind) /\ current_screen = "Edit"
    /\ code = Enter
    /\ IF todo_list_state # None /\ currently_editing # None
       THEN LET ce == currently_editing[1]
                desc == input.value
            IN  /\ input' = InputDefault
                /\ items' = add_item(items, TodoItem(ce.done, desc))
       ELSE UNCHANGED <<input, items>>
    /\ current_screen' = "Main"
    /\ pc' = "draw"
    /\ entry_items' = None
    /\ UNCHANGED <<term, currently_editing, edit_index, todo_list_state, add_commits>>

\* Mutant of EditEnter: the replacing item is built not done.
EditEnterResetsDone(kind, code) ==
    /\ pc = "read" /\ Acted(kind) /\ current_screen = "Edit"
    /\ code = Enter
    /\ IF todo_list_state # None /\ currently_editing # None
       THEN /\ input' = InputDefault
            /\ items' = replace(items, TodoItem(FALSE, input.value), todo_list_state[1])
       ELSE UNCHANGED <<input, items>>
    /\ current_screen' = "Main"
    /\ pc' = "draw"
    /\ entry_items' = None
    /\ UNCHANGED <<term, currently_editing, edit_index, todo_list_state, add_commits>>

EditEnter(kind, code) ==
    /\ pc = "read" /\ Acted(kind) /\ current_screen = "Edit"
    /\ code = Enter
    /\ IF todo_list_state # None /\ currently_editing # None
       THEN LET ce == currently_editing[1]
                desc == input.value
            IN  /\ input' = InputDefault
                /\ items' = replace(items, TodoItem(ce.done, desc), todo_list_state[1])
       ELSE UNCHANGED <<input, items>>
    /\ current_screen' = "Main"
    /\ pc' = "draw"
    /\ entry_items' = None
    /\ UNCHANGED <<term, currently_editing, edit_index, todo_list_state, add_commits>>

EditOther(kind, code) ==
    /\ pc = "read" /\ Acted(kind) /\ current_screen = "Edit"
    /\ code \notin {Esc, Enter}
    /\ Typable(code)
    /\ input' = handle_event(input, code)
    /\ pc' = "draw"
    /\ UNCHANGED <<term, current_screen, currently_editing, edit_index, todo_list_state,
                   items, hist>>

AddEsc(kind, code) ==
    /\ pc = "read" /\ Acted(kind) /\ current_screen = "Add"
    /\ code = Esc
    /\ current_screen' = "Main"
    /\ pc' = "draw"
    /\ entry_items' = None
    /\ UNCHANGED <<term, input, currently_editing, edit_index, todo_list_state, items,
                   add_commits>>

\* Mutant of AddEnter: an empty buffer commits nothing.
AddEnterSkipsEmpty(kind, code) ==
    /\ pc = "read" /\ Acted(kind) /\ current_screen = "Add"
    /\ code = Enter
    /\ Len(items) < MaxItems
    /\ items' = IF input.value = <<>> THEN items
                ELSE Append(items, TodoItem(FALSE, input.value))
    /\ input' = InputDefault
    /\ add_commits' = add_commits + 1
    /\ entry_items' = None
    /\ current_screen' = "Main"
    /\ pc' = "draw"
    /\ UNCHANGED <<term, currently_editing, edit_index, todo_list_state>>

\* Mutant of AddEnter: the committed item becomes the selected one.
AddEnterSelectsNew(kind, code) ==
    /\ pc = "read" /\ Acted(kind) /\ current_screen = "Add"
    /\ code = Enter
    /\ Len(items) < MaxItems
    /\ items' = Append(items, TodoItem(FALSE, input.value))
    /\ input' = InputDefault
    /\ todo_list_state' = Some(Len(items))
    /\ add_commits' = add_commits + 1
    /\ entry_items' = None
    /\ current_screen' = "Main"
    /\ pc' = "draw"
    /\ UNCHANGED <<term, currently_editing, edit_index>>

AddEnter(kind, code) ==
    /\ pc = "read" /\ Acted(kind) /\ current_screen = "Add"
    /\ code = Enter
    /\ Len(items) < MaxItems
    /\ items' = Append(items, TodoItem(FALSE, input.value))
    /\ input' = InputDefault
    /\ add_commits' = add_commits + 1
    /\ entry_items' = None
    /\ current_screen' = "Main"
    /\ pc' = "draw"
    /\ UNCHANGED <<term, currently_editing, edit_index, todo_list_state>>

\* Mutant of AddOther: a key forwarded to the input buffer skips the redraw.
AddOtherSkipsRedraw(kind, code) ==
    /\ pc = "read" /\ Acted(kind) /\ current_screen = "Add"
    /\ code \notin {Esc, Enter}
    /\ Typable(code)
    /\ input' = handle_event(input, code)
    /\ pc' = "read"
    /\ UNCHANGED <<term, current_screen, currently_editing, edit_index, todo_list_state,
                   items, hist>>

AddOther(kind, code) ==
    /\ pc = "read" /\ Acted(kind) /\ current_screen = "Add"
    /\ code \notin {Esc, Enter}
    /\ Typable(code)
    /\ input' = handle_event(input, code)
    /\ pc' = "draw"
    /\ UNCHANGED <<term, current_screen, currently_editing, edit_index, todo_list_state,
                   items, hist>>

\* The same two handlers with every character of Chars typed; the buffer is kept
\* within MaxLen characters.
TypableChars(code) == code[1] = "Char" => Len(input.value) < MaxLen

EditOtherChars(kind, code) ==
    /\ pc = "read" /\ Acted(kind) /\ current_screen = "Edit"
    /\ code \notin {Esc, Enter}
    /\ TypableChars(code)
    /\ input' = handle_event(input, code)
    /\ pc' = "draw"
    /\ UNCHANGED <<term, current_screen, currently_editing, edit_index, todo_list_state,
                   items, hist>>

\* Mutant of AddOtherChars: 'q' quits on the Add screen as it does on Main.
AddOtherCharsQuitOnQ(kind, code) ==
    /\ pc = "read" /\ Acted(kind) /\ current_screen = "Add"
    /\ code \notin {Esc, Enter}
    /\ TypableChars(code)
    /\ IF code = Char("q")
       THEN /\ current_screen' = "Exit"
            /\ entry_items' = None
            /\ UNCHANGED <<input, add_commits>>
       ELSE /\ input' = handle_event(input, code)
            /\ UNCHANGED <<current_screen, hist>>
    /\ pc' = "draw"
    /\ UNCHANGED <<term, currently_editing, edit_index, todo_list_state, items>>

AddOtherChars(kind, code) ==
    /\ pc = "read" /\ Acted(kind) /\ current_screen = "Add"
    /\ code \notin {Esc, Enter}
    /\ TypableChars(code)
    /\ input' = handle_event(input, code)
    /\ pc' = "draw"
    /\ UNCHANGED <<term, current_screen, currently_editing, edit_index, todo_list_state,
                   items, hist>>

(***************************************************************************)
(* run_app: the redraw that ends the iteration, keyed on the screen.       *)
(***************************************************************************)
DrawAdd ==
    /\ pc = "draw" /\ current_screen = "Add"
    /\ pc' \in {"read", "exit_err"}
    /\ UNCHANGED <<term, app, hist>>

DrawEdit ==
    /\ pc = "draw" /\ current_screen = "Edit"
    /\ current_screen' = IF currently_editing # None THEN "Edit" ELSE "Main"
    /\ pc' \in {"read", "exit_err"}
    /\ UNCHANGED <<term, input, currently_editing, edit_index, todo_list_state, items,
                   hist>>

DrawMain ==
    /\ pc = "draw" /\ current_screen = "Main"
    /\ todo_list_state' = main_ui(todo_list_state, items)
    /\ pc' \in {"read", "exit_err"}
    /\ UNCHANGED <<term, current_screen, input, currently_editing, edit_index, items,
                   hist>>

\* Mutant of DrawExit: the Exit screen does not end the loop.
DrawExitKeepsLooping ==
    /\ pc = "draw" /\ current_screen = "Exit"
    /\ pc' = "read"
    /\ UNCHANGED <<term, app, hist>>

DrawExit ==
    /\ pc = "draw" /\ current_screen = "Exit"
    /\ pc' = "disable_raw_mode"
    /\ UNCHANGED <<term, app, hist>>

(***************************************************************************)
(* main: terminal teardown after run_app returned Ok.                      *)
(***************************************************************************)
DisableRawMode ==
    /\ pc = "disable_raw_mode"
    /\ \/ /\ raw_mode' = FALSE
          /\ pc' = "leave_screen"
       \/ /\ raw_mode' = raw_mode
          /\ pc' = "exit_err"
    /\ UNCHANGED <<alternate_screen, mouse_capture, app, hist>>

LeaveScreen ==
    /\ pc = "leave_screen"
    /\ \/ /\ alternate_screen' = FALSE
          /\ mouse_capture' = FALSE
          /\ pc' = "show_cursor"
       \/ /\ alternate_screen' \in BOOLEAN
          /\ mouse_capture' \in BOOLEAN
          /\ ~mouse_capture' => ~alternate_screen'
          /\ pc' = "exit_err"
    /\ UNCHANGED <<raw_mode, app, hist>>

ShowCursor ==
    /\ pc = "show_cursor"
    /\ pc' \in {"exit_ok", "exit_err"}
    /\ UNCHANGED <<term, app, hist>>

Next ==
    \/ EnableRawMode
    \/ EnterScreen
    \/ TerminalNew
    \/ ReadFail
    \/ OtherEvent
    \/ \E kind \in KeyEventKinds, code \in KeyCodes :
        \/ KeyRelease(kind, code)
        \/ MainA(kind, code)
        \/ MainEnter(kind, code)
        \/ MainQ(kind, code)
        \/ MainSpace(kind, code)
        \/ MainUp(kind, code)
        \/ MainDown(kind, code)
        \/ MainOther(kind, code)
        \/ EditEsc(kind, code)
        \/ EditEnter(kind, code)
        \/ EditOther(kind, code)
        \/ AddEsc(kind, code)
        \/ AddEnter(kind, code)
        \/ AddOther(kind, code)
    \/ DrawAdd
    \/ DrawEdit
    \/ DrawMain
    \/ DrawExit
    \/ DisableRawMode
    \/ LeaveScreen
    \/ ShowCursor

Spec == Init /\ [][Next]_vars

(***************************************************************************)
(* run_app driven through one add and one edit: 'a' on the empty list, the *)
(* text typed on the Add screen, Enter, Up or Down to select the item,     *)
(* Enter, the text changed on the Edit screen, Enter.  No other key is     *)
(* pressed, and none after the edit is committed.                          *)
(***************************************************************************)
NextRoundTrip ==
    \/ EnableRawMode
    \/ EnterScreen
    \/ TerminalNew
    \/ \E kind \in KeyEventKinds, code \in KeyCodes :
        \/ items = <<>> /\ MainA(kind, code)
        \/ AddOtherChars(kind, code)
        \/ AddEnter(kind, code)
        \/ Len(items) = 1 /\ currently_editing = None /\ MainUp(kind, code)
        \/ Len(items) = 1 /\ currently_editing = None /\ MainDown(kind, code)
        \/ todo_list_state # None /\ currently_editing = None /\ MainEnter(kind, code)
        \/ EditOtherChars(kind, code)
        \/ EditEnter(kind, code)
    \/ DrawAdd
    \/ DrawEdit
    \/ DrawMain

SpecRoundTrip == Init /\ [][NextRoundTrip]_vars

(***************************************************************************)
(* run_app with every character of Chars typed on the Add and Edit         *)
(* screens, on lists of at most one item: Enter on the Add screen is       *)
(* pressed only while the list is empty.                                   *)
(***************************************************************************)
NextModal ==
    \/ EnableRawMode
    \/ EnterScreen
    \/ TerminalNew
    \/ ReadFail
    \/ OtherEvent
    \/ \E kind \in KeyEventKinds, code \in KeyCodes :
        \/ KeyRelease(kind, code)
        \/ MainA(kind, code)
        \/ MainEnter(kind, code)
        \/ MainQ(kind, code)
        \/ MainSpace(kind, code)
        \/ MainUp(kind, code)
        \/ MainDown(kind, code)
        \/ MainOther(kind, code)
        \/ EditEsc(kind, code)
        \/ EditEnter(kind, code)
        \/ EditOtherChars(kind, code)
        \/ AddEsc(kind, code)
        \/ items = <<>> /\ AddEnter(kind, code)
        \/ AddOtherChars(kind, code)
    \/ DrawAdd
    \/ DrawEdit
    \/ DrawMain
    \/ DrawExit
    \/ DisableRawMode
    \/ LeaveScreen
    \/ ShowCursor

SpecModal == Init /\ [][NextModal]_vars

\* The dispatch of one key event with every character typed on Add and Edit.
KeyStepChars(kind, code) ==
    \/ KeyRelease(kind, code)
    \/ MainA(kind, code)
    \/ MainEnter(kind, code)
    \/ MainQ(kind, code)
    \/ MainSpace(kind, code)
    \/ MainUp(kind, code)
    \/ MainDown(kind, code)
    \/ MainOther(kind, code)
    \/ EditEsc(kind, code)
    \/ EditEnter(kind, code)
    \/ EditOtherChars(kind, code)
    \/ AddEsc(kind, code)
    \/ AddEnter(kind, code)
    \/ AddOtherChars(kind, code)

(***************************************************************************)
(* AppState::replace on its own: one call on any list within the bounds,   *)
(* with any item and any index of the list.  The list before the call is   *)
(* kept in entry_items, the item passed in currently_editing and the index *)
(* passed in todo_list_state.                                              *)
(***************************************************************************)
Texts == UNION {[1 .. n -> TypedChars] : n \in 0 .. MaxLen}
ItemValues == {TodoItem(d, t) : d \in BOOLEAN, t \in Texts}
Lists == UNION {[1 .. n -> ItemValues] : n \in 0 .. MaxItems}

InitReplace ==
    /\ pc = "replace"
    /\ raw_mode = FALSE
    /\ alternate_screen = FALSE
    /\ mouse_capture = FALSE
    /\ current_screen = "Main"
    /\ input = InputDefault
    /\ currently_editing = None
    /\ edit_index = 0
    /\ todo_list_state = None
    /\ items \in Lists
    /\ add_commits = 0
    /\ entry_items = None

ReplaceCall ==
    /\ pc = "replace"
    /\ \E index \in 0 .. Len(items) - 1, todo_item \in ItemValues :
        /\ items' = replace(items, todo_item, index)
        /\ todo_list_state' = Some(index)
        /\ currently_editing' = Some(todo_item)
    /\ entry_items' = Some(items)
    /\ pc' = "replaced"
    /\ UNCHANGED <<term, current_screen, input, edit_index, add_commits>>

SpecReplace == InitReplace /\ [][ReplaceCall]_vars

\* The dispatch of one key event of the given kind and code: lines 103-179.
KeyStep(kind, code) ==
    \/ KeyRelease(kind, code)
    \/ MainA(kind, code)
    \/ MainEnter(kind, code)
    \/ MainQ(kind, code)
    \/ MainSpace(kind, code)
    \/ MainUp(kind, code)
    \/ MainDown(kind, code)
    \/ MainOther(kind, code)
    \/ EditEsc(kind, code)
    \/ EditEnter(kind, code)
    \/ EditOther(kind, code)
    \/ AddEsc(kind, code)
    \/ AddEnter(kind, code)
    \/ AddOther(kind, code)

(***************************************************************************)
(* Claims.                                                                 *)
(***************************************************************************)
InRange(sel, v) == sel # None /\ 0 <= sel[1] /\ sel[1] < Len(v)

\* C1: starting from the empty list, after N commits on the Add screen the list has
\* exactly N items; a commit appends one item, done = false, whose description is the
\* input buffer's value at that moment (an empty buffer too), after the items already
\* there; no other step changes the length or the order of the list (item k stays the
\* one the k-th commit created).
C1_AddCommitsAppend ==
    /\ [](Len(items) = add_commits)
    /\ [][IF add_commits' = add_commits + 1
          THEN /\ Len(items') = Len(items) + 1
               /\ \A k \in Indices(items) : items'[k] = items[k]
               /\ items'[Len(items')].done = FALSE
               /\ items'[Len(items')].description = input.value
          ELSE /\ add_commits' = add_commits
               /\ Len(items') = Len(items)]_vars

\* Two commits were made, the first of an empty buffer, the second of a typed text.
C1_Witness ==
    /\ add_commits = 2
    /\ Len(items) = 2
    /\ items[1].description = <<>>
    /\ items[2].description # <<>>

\* C2: Space on Main with item i selected flips the done flag of item i and changes
\* nothing else: the other done flags, every description, the length and order of
\* the list, the screen, and the selection (also once Main has been redrawn).
C2_SpaceTogglesOnlySelected ==
    [][\A kind \in KeyEventKinds, code \in KeyCodes :
        (MainSpace(kind, code) /\ Len(items) > 0 /\ todo_list_state # None) =>
            /\ Len(items') = Len(items)
            /\ \A k \in Indices(items) :
                /\ items'[k].description = items[k].description
                /\ items'[k].done = IF k = todo_list_state[1] + 1
                                    THEN ~items[k].done ELSE items[k].done
            /\ todo_list_state' = todo_list_state
            /\ main_ui(todo_list_state', items') = todo_list_state
            /\ current_screen' = "Main"
            /\ input' = input
            /\ currently_editing' = currently_editing]_vars

\* Two items, the second selected and toggled to done, the first still not done.
C2_Witness ==
    /\ pc = "draw"
    /\ current_screen = "Main"
    /\ Len(items) = 2
    /\ todo_list_state = Some(1)
    /\ items[2].done
    /\ ~items[1].done

\* C3: while the Edit screen is up, the selection does not move from the index Edit
\* was entered on and the saved copy is the item at that index, unchanged since then;
\* Enter on Edit then changes only that item's description, to the input buffer's
\* value: its done flag, every other item, the length and the order stay.
C3_EditCommitChangesDescriptionOnly ==
    /\ [](current_screen = "Edit" =>
            /\ InRange(todo_list_state, items)
            /\ entry_items = Some(items)
            /\ currently_editing = Some(items[todo_list_state[1] + 1]))
    /\ [][current_screen = "Edit" => todo_list_state' = todo_list_state]_vars
    /\ [][\A kind \in KeyEventKinds, code \in KeyCodes :
            EditEnter(kind, code) =>
                /\ Len(items') = Len(items)
                /\ \A k \in Indices(items) :
                    IF k = todo_list_state[1] + 1
                    THEN /\ items'[k].done = entry_items[1][k].done
                         /\ items'[k].description = input.value
                    ELSE items'[k] = items[k]]_vars

\* An edit of a done item was committed: the first of two items is done and carries a
\* typed text, and the saved copy still holds the empty description it was entered with.
C3_Witness ==
    /\ current_screen = "Main"
    /\ Len(items) = 2
    /\ items[1].done
    /\ items[1].description # <<>>
    /\ currently_editing = Some(TodoItem(TRUE, <<>>))
    /\ todo_list_state = Some(0)
    /\ input = InputDefault

C6_EscLeavesListUnmodified ==
    [][\A kind \in KeyEventKinds, code \in KeyCodes :
        (AddEsc(kind, code) \/ EditEsc(kind, code)) =>
            /\ entry_items # None
            /\ Len(items') = Len(entry_items[1])
            /\ \A k \in Indices(items') :
                /\ items'[k].done = entry_items[1][k].done
                /\ items'[k].description = entry_items[1][k].description
            /\ current_screen' = "Main"]_vars

\* Esc has just left the Edit screen of an item whose text had been changed in the
\* buffer: the buffer differs from the description of the selected item.
C6_Witness ==
    /\ pc = "draw"
    /\ current_screen = "Main"
    /\ entry_items = None
    /\ InRange(todo_list_state, items)
    /\ currently_editing = Some(items[todo_list_state[1] + 1])
    /\ input.value # items[todo_list_state[1] + 1].description

\* C7 as stated: right after 'a' on Main the input buffer's value is the empty string.
C7_Orig ==
    [][\A kind \in KeyEventKinds, code \in KeyCodes :
        MainA(kind, code) => input'.value = <<>>]_vars

\* C8 as stated: in every reachable state with the Main screen up, the input buffer's
\* value is the empty string.
C8_Orig ==
    current_screen = "Main" => input.value = <<>>

\* C9 as stated: the process never terminates with raw mode, the alternate screen or
\* mouse capture still enabled.
C9_Orig ==
    pc \in {"exit_ok", "exit_err"} =>
        ~raw_mode /\ ~alternate_screen /\ ~mouse_capture

\* C10 as stated: a key event of a kind other than Press leaves the screen, the task
\* list, the selection and the input buffer unchanged, whatever its key code.
C10_Orig ==
    [][\A kind \in KeyEventKinds \ {"Press"}, code \in KeyCodes :
        KeyStep(kind, code) =>
            UNCHANGED <<current_screen, items, todo_list_state, input>>]_vars

\* C11: a key event of kind Release mutates nothing, on any screen and for any key
\* code: the screen, the task list, the selection, the saved edit item and the input
\* buffer after it are those before it (and no redraw follows: the loop reads again).
C11_ReleaseMutatesNothing ==
    [][\A code \in KeyCodes :
        KeyStep("Release", code) =>
            /\ current_screen' = current_screen
            /\ items' = items
            /\ todo_list_state' = todo_list_state
            /\ currently_editing' = currently_editing
            /\ input' = input
            /\ pc' = "read"]_vars

\* The loop waits on the Edit screen with the buffer changed, and a Release of Enter
\* (which as a Press would commit the edit) can be read.
C11_Witness ==
    /\ pc = "read"
    /\ current_screen = "Edit"
    /\ InRange(todo_list_state, items)
    /\ input.value # items[todo_list_state[1] + 1].description
    /\ ENABLED KeyRelease("Release", Enter)

\* C12: 'q' can be pressed on Main whatever the list and the selection are, and sets
\* the screen to Exit; with the screen Exit the loop ends in that iteration: no event
\* is read or dispatched any more (the redraw step breaks out of the loop) and the
\* application state is not changed again.
C12_QuitEndsLoop ==
    /\ []((pc = "read" /\ current_screen = "Main") => ENABLED MainQ("Press", Char("q")))
    /\ [][\A kind \in KeyEventKinds, code \in KeyCodes :
            MainQ(kind, code) => current_screen' = "Exit"]_vars
    /\ [](current_screen = "Exit" => pc # "read")
    /\ [][current_screen = "Exit" =>
            /\ UNCHANGED app
            /\ pc = "draw" => pc' = "disable_raw_mode"]_vars

\* The loop has ended through Exit with two items in the list and one selected.
C12_Witness ==
    /\ current_screen = "Exit"
    /\ pc = "disable_raw_mode"
    /\ Len(items) = 2
    /\ todo_list_state = Some(1)

\* C13: in the round trip through add and edit from the empty list, the Enter that
\* commits the edit ends on the Main screen with a list of exactly one item whose
\* description is the buffer text at that Enter; that item is not done, as before the
\* edit, and the list stays so.
C13_AddEditRoundTrip ==
    /\ [][\A kind \in KeyEventKinds, code \in KeyCodes :
            EditEnter(kind, code) =>
                /\ current_screen' = "Main"
                /\ items' = <<TodoItem(FALSE, input.value)>>
                /\ Len(items) = 1
                /\ items'[1].done = items[1].done]_vars
    /\ [](current_screen = "Main" /\ currently_editing # None =>
            /\ Len(items) = 1
            /\ ~items[1].done)

\* The round trip is over: "q" was added, then edited into "a".
C13_Witness ==
    /\ pc = "read"
    /\ current_screen = "Main"
    /\ currently_editing = Some(TodoItem(FALSE, <<"q">>))
    /\ items = <<TodoItem(FALSE, <<"a">>)>>

C15_AddCommitKeepsSelection ==
    /\ [][current_screen = "Add" => todo_list_state' = todo_list_state]_vars
    /\ [][\A kind \in KeyEventKinds, code \in KeyCodes :
            AddEnter(kind, code) =>
                /\ todo_list_state' = todo_list_state
                /\ main_ui(todo_list_state', items') = todo_list_state
                /\ Len(items') = Len(items) + 1
                /\ items'[Len(items')] = TodoItem(FALSE, input.value)]_vars

\* A second item has just been committed while the first one is selected.
C15_Witness ==
    /\ pc = "draw"
    /\ current_screen = "Main"
    /\ add_commits = 2
    /\ Len(items) = 2
    /\ todo_list_state = Some(0)
    /\ entry_items = None
    /\ input = InputDefault

\* C16: for every list and every index of it, replace(item, index) yields a list of
\* the same length that holds item at index and, at every other position, the item
\* that was there before.
C16_ReplaceKeepsOthers ==
    pc = "replaced" =>
        LET before == entry_items[1]
            index == todo_list_state[1]
            item == currently_editing[1]
        IN  /\ Len(items) = Len(before)
            /\ items[index + 1] = item
            /\ \A k \in Indices(before) : k # index + 1 => items[k] = before[k]

\* The first of two different items was replaced by an item different from both.
C16_Witness ==
    /\ pc = "replaced"
    /\ Len(items) = 2
    /\ todo_list_state = Some(0)
    /\ entry_items[1][1] # entry_items[1][2]
    /\ items[1] # entry_items[1][1]
    /\ items[1] # entry_items[1][2]

\* C17: every processed event (a key press or repeat, also of a key the screen
\* ignores, or an event that is no key event) is followed by the redraw step; unless
\* the screen is Exit, the one step taken from there is the draw of the view of the
\* screen as the handler left it (Main list, Add box, or Edit box, which is drawn
\* since an item is being edited), after which the next event is read, or the process
\* ends on a failed draw.
C17_OneRedrawOfCurrentScreen ==
    /\ [][(\/ OtherEvent
           \/ \E kind \in KeyEventKinds \ {"Release"}, code \in KeyCodes :
                KeyStep(kind, code)) => pc' = "draw"]_vars
    /\ [][pc = "draw" =>
            /\ current_screen = "Main" => DrawMain
            /\ current_screen = "Add" => DrawAdd
            /\ current_screen = "Edit" => DrawEdit /\ currently_editing # None
            /\ current_screen # "Exit" =>
                /\ current_screen' = current_screen
                /\ pc' \in {"read", "exit_err"}]_vars
    /\ [](pc = "read" => ~ENABLED (DrawMain \/ DrawAdd \/ DrawEdit))

\* A key typed on the Edit screen has been handled and the Edit box redrawn.
C17_Witness ==
    /\ pc = "read"
    /\ current_screen = "Edit"
    /\ currently_editing # None
    /\ input.value # currently_editing[1].description

C19_ModalKeys ==
    /\ [][(current_screen \in {"Add", "Edit"}
                /\ \E kind \in KeyEventKinds, code \in KeyCodes \ {Esc, Enter} :
                        KeyStepChars(kind, code)) =>
            UNCHANGED <<term, current_screen, currently_editing, edit_index,
                        todo_list_state, items>>]_vars
    /\ [][(current_screen # "Exit" /\ current_screen' = "Exit") =>
            /\ current_screen = "Main"
            /\ \E kind \in KeyEventKinds : MainQ(kind, Char("q"))]_vars
    /\ [][items' # items =>
            \E kind \in KeyEventKinds :
                \/ current_screen = "Main" /\ MainSpace(kind, Char(" "))
                \/ current_screen = "Add" /\ AddEnter(kind, Enter)
                \/ current_screen = "Edit" /\ EditEnter(kind, Enter)]_vars

\* Space was typed on the Add screen while the first item was selected and not done.
C19_Witness ==
    /\ pc = "read"
    /\ current_screen = "Add"
    /\ input.value = <<" ">>
    /\ todo_list_state = Some(0)
    /\ Len(items) = 1
    /\ ~items[1].done

\* C20: whenever the screen is Edit, an index of the list is selected and the saved
\* copy is present and equal to the item at that index; so Enter on Edit always does
\* the replacement, at an index in bounds, and the edit view never falls back to Main.
C20_EditHasSelectionAndCopy ==
    /\ [](current_screen = "Edit" =>
            /\ InRange(todo_list_state, items)
            /\ currently_editing # None
            /\ currently_editing[1].done = items[todo_list_state[1] + 1].done
            /\ currently_editing[1].description =
                   items[todo_list_state[1] + 1].description)
    /\ [][\A kind \in KeyEventKinds, code \in KeyCodes :
            EditEnter(kind, code) =>
                /\ InRange(todo_list_state, items)
                /\ items' = replace(items, TodoItem(currently_editing[1].done, input.value),
                                    todo_list_state[1])
                /\ input' = InputDefault]_vars
    /\ [][DrawEdit => current_screen' = "Edit"]_vars

\* The Edit screen is up for the second of two items, a done one.
C20_Witness ==
    /\ pc = "read"
    /\ current_screen = "Edit"
    /\ Len(items) = 2
    /\ todo_list_state = Some(1)
    /\ currently_editing = Some(items[2])
    /\ items[2].done

====
